---- MODULE Spec2Model ----
(***************************************************************************)
(* Travel-reimbursement emulator: the rule engine (handcrafted_v2.py), the *)
(* hybrid blend with the random forest (calculate_reimbursement.py) and    *)
(* the batch run (generate_results.py).                                    *)
(*                                                                         *)
(* Units.  The code computes in binary floating point.  Here every amount  *)
(* of money is an integer number of 10^-5 dollar ("units"), a result       *)
(* rounded by round(x, 2) is an integer number of cents, receipts are an   *)
(* integer number of mills (10^-3 dollar) and miles are whole miles.       *)
(* Products are truncated to a unit, so a modelled amount is within Slack  *)
(* units of the float the code holds; where that could change the cent a   *)
(* rounding lands on, round is modelled by both cents (RoundOutcomes).     *)
(***************************************************************************)
EXTENDS Integers, Sequences, FiniteSets, TLC

\* ------------------------------------------------------------------------
\* Bounds of the model
\* ------------------------------------------------------------------------
MaxDays == 14
MaxMiles == 1200
MaxRecK == 14
MaxGap == 35001
MaxCases == 3
\* the truncation error of a modelled amount, in units
Slack == 3

\* ------------------------------------------------------------------------
\* 1  Constants (handcrafted_v2.py, C)
\* ------------------------------------------------------------------------
\* units per cent: round(total, 2) keeps two decimals
CentUnit == 1000

BASE == 9720000
LONG_K == 111
M_DELTA == <<-26100000, -2500000, 2100000, 25400000, 31400000>>
lims == <<100, 300, 600, 1000>>
R12_LOW == 60
R12_HIGH == 15
R12_KNEE == 1000000
R36_LOW == 45
R36_HIGH == 15
R36_KNEE == 1000000
R7_BASE == 45
R7_SPILL == 15
R7_KNEE_PD == 150000
R7_P0 == 25
R7_P_S == 2
FIVE_BONUS == 7900000
FIVE_CAP == 172000000
WEEK_BONUS == 28000000
FORT_PEN == -37000000
EFF_PEAK == 200
EFF_WIDTH == 260
EFF_BONUS == 8000000
ONE_DAY_WARRIOR_BONUS == 23500000
LMILE_CAP_PD == 900000
LMILE_PEN_RATE == 90
BUG == 60
BLEND_GAP == 10000
BLEND_WEIGHT == 900
\* the pair the module docstring of calculate_reimbursement.py states
DOC_GAP == 35000
DOC_WEIGHT == 800

\* ------------------------------------------------------------------------
\* Arithmetic helpers
\* ------------------------------------------------------------------------
Max(a, b) == IF a >= b THEN a ELSE b
Min(a, b) == IF a <= b THEN a ELSE b
Abs(a) == IF a >= 0 THEN a ELSE -a

\* floor(a*b/c) for b >= 0, c > 0 without leaving 32 bits
MulDiv(a, b, c) == (a \div c) * b + ((a % c) * b) \div c

\* Python's round: the integers round(x/unit) can be.  x is known to within
\* slack; a value that is not within slack of a half-way point rounds to the
\* nearer integer, a value at a half-way point rounds by the binary
\* representation of the float, which is either neighbour.
RoundOutcomes(x, unit, slack) ==
    LET q == x \div unit
        rem == x % unit
        half == unit \div 2
    IN IF rem < half - slack THEN {q}
       ELSE IF rem > half + slack THEN {q + 1}
       ELSE {q, q + 1}

\* math.log(n) in units of 10^-8, n = d - 6
LogTable == <<0, 69314718, 109861229, 138629436, 160943791, 179175947,
              194591015, 207944154, 219722458, 230258509, 239789527,
              248490665, 256494936, 263905733, 270805020>>

\* ------------------------------------------------------------------------
\* 2  Helper functions
\* ------------------------------------------------------------------------

\* long_fac(d) in units of 10^-9
long_fac(d) ==
    IF d <= 7 THEN 1000000000
    ELSE Max(0, 1000000000 - MulDiv(LogTable[d - 6], LONG_K, 100))

\* C["BASE"]*d*long_fac(d)
base_pay(d) == MulDiv(long_fac(d), (BASE \div 10000) * d, 100000)

mile_delta_below_100(d, m) ==
    IF m < 100
    THEN IF d = 1 THEN 0
         ELSE IF d <= 3 THEN -15000000
         ELSE IF d <= 6 THEN -10000000
         ELSE -5000000
    ELSE IF \E i \in 1..Len(lims) : m <= lims[i]
         THEN M_DELTA[CHOOSE i \in 1..Len(lims) :
                         /\ m <= lims[i]
                         /\ \A j \in 1..(i - 1) : m > lims[j]]
         ELSE M_DELTA[Len(M_DELTA)]

mile_delta(d, m) ==
    IF m <= 100
    THEN IF d = 1 THEN 0
         ELSE IF d <= 3 THEN -15000000
         ELSE IF d <= 6 THEN -10000000
         ELSE -5000000
    ELSE IF \E i \in 1..Len(lims) : m <= lims[i]
         THEN M_DELTA[CHOOSE i \in 1..Len(lims) :
                         /\ m <= lims[i]
                         /\ \A j \in 1..(i - 1) : m > lims[j]]
         ELSE M_DELTA[Len(M_DELTA)]

rec_1_6(d, rec, low, hi, knee_pd) ==
    LET knee == knee_pd * d
    IN IF rec <= knee THEN low * rec ELSE low * knee + hi * (rec - knee)

rec_7_plus_floored(d, rec) ==
    LET knee == R7_KNEE_PD * d
        base == R7_BASE * Min(rec, knee)
        spill == R7_SPILL * Max(0, Min(rec - knee, knee))
        pen_rate == R7_P0 + R7_P_S * d
        penalty == pen_rate * Max(0, rec - 2 * knee)
    IN Max(0, base + spill - penalty)

rec_7_plus(d, rec) ==
    LET knee == R7_KNEE_PD * d
        base == R7_BASE * Min(rec, knee)
        spill == R7_SPILL * Max(0, Min(rec - knee, knee))
        pen_rate == R7_P0 + R7_P_S * d
        penalty == pen_rate * Max(0, rec - 2 * knee)
    IN base + spill - penalty

rec_comp(d, rec) ==
    IF d <= 2 THEN rec_1_6(d, rec, R12_LOW, R12_HIGH, R12_KNEE)
    ELSE IF d <= 6 THEN rec_1_6(d, rec, R36_LOW, R36_HIGH, R36_KNEE)
    ELSE rec_7_plus(d, rec)

eff_bonus_peak_width_swapped(d, m) ==
    LET x == m - EFF_WIDTH * d
        den == (EFF_PEAK \div 20) * (EFF_PEAK \div 20) * d * d
        peak == IF d <= 6 THEN 8000000 ELSE EFF_BONUS
        val == peak - MulDiv(x * x, peak \div 400, den)
    IN IF d >= 7 THEN val ELSE Max(0, val)

\* sc*peak with sc = 1-((m/d-EFF_PEAK)/EFF_WIDTH)^2, d > 0:
\* peak - peak*(m - EFF_PEAK*d)^2 / (EFF_WIDTH*d)^2
eff_bonus(d, m) ==
    LET x == m - EFF_PEAK * d
        den == (EFF_WIDTH \div 20) * (EFF_WIDTH \div 20) * d * d
        peak == IF d <= 6 THEN 8000000 ELSE EFF_BONUS
        val == peak - MulDiv(x * x, peak \div 400, den)
    IN IF d >= 7 THEN val ELSE Max(0, val)

\* rpd = r/d; the comparisons are multiplied through by d > 0
fortnight_adj(d, r) ==
    IF 7 <= d /\ d <= 8 /\ 120000 * d <= r /\ r <= 180000 * d THEN WEEK_BONUS
    ELSE IF 13 <= d /\ d <= 14 /\ 150000 * d <= r /\ r <= 200000 * d THEN FORT_PEN
    ELSE 0

low_mile_penalty_cap_not_per_day(d, m, rec) ==
    IF d \in {3, 4} /\ m <= 100
    THEN LET cap == LMILE_CAP_PD
             excess == Max(0, rec - cap)
         IN -(LMILE_PEN_RATE * excess)
    ELSE 0

low_mile_penalty(d, m, rec) ==
    IF d \in {3, 4} /\ m <= 100
    THEN LET cap == LMILE_CAP_PD * d
             excess == Max(0, rec - cap)
         IN -(LMILE_PEN_RATE * excess)
    ELSE 0

\* int(round(r*100)): the cents r rounds to
round_cents(r) == RoundOutcomes(r, 10, 0)

hits_bug_49_only(c) == (c % 100) = 49

hits_bug(c) == (c % 100) \in {49, 99}

\* ------------------------------------------------------------------------
\* 3  Main calculation, one operator per statement of calculate_reimbursement
\* ------------------------------------------------------------------------
five_day_cap_first(d, t) == IF d = 5 THEN Min(t, FIVE_CAP) + FIVE_BONUS ELSE t

five_day_uncapped(d, t) == IF d = 5 THEN t + FIVE_BONUS ELSE t

five_day(d, t) == IF d = 5 THEN Min(t + FIVE_BONUS, FIVE_CAP) ELSE t

one_day_from_500(d, m, t) ==
    IF d = 1 /\ m >= 500 THEN t + ONE_DAY_WARRIOR_BONUS ELSE t

one_day(d, m, t) == IF d = 1 /\ m > 500 THEN t + ONE_DAY_WARRIOR_BONUS ELSE t

low_mile(d, m, r, t) == t + low_mile_penalty(d, m, r)

fortnight(d, r, t) == t + fortnight_adj(d, r)

bug_mult(c, t) == IF hits_bug(c) THEN MulDiv(t, BUG, 100) ELSE t

round2(t) == RoundOutcomes(t, CentUnit, Slack)

\* ------------------------------------------------------------------------
\* Hybrid (calculate_reimbursement.py)
\* ------------------------------------------------------------------------
blend_from_threshold(h0, f0) ==
    IF Abs(h0 - f0) >= BLEND_GAP
    THEN h0 * CentUnit + BLEND_WEIGHT * (f0 - h0)
    ELSE h0 * CentUnit

blend_toward_h(h0, f0) ==
    IF Abs(h0 - f0) > BLEND_GAP
    THEN f0 * CentUnit + BLEND_WEIGHT * (h0 - f0)
    ELSE h0 * CentUnit

\* h0, f0 in cents; the blended value in units
blend(h0, f0) ==
    IF Abs(h0 - f0) > BLEND_GAP
    THEN h0 * CentUnit + BLEND_WEIGHT * (f0 - h0)
    ELSE h0 * CentUnit

hybrid_round(x) == RoundOutcomes(x, CentUnit, 0)

\* ------------------------------------------------------------------------
\* Inputs
\* ------------------------------------------------------------------------
Days == 0..MaxDays

Miles == {0, 50, 100, 101, 300, 301, 500, 501, 600, 601, 1000, 1001, MaxMiles}

CentOffsets == {0, 490, 494, 495, 496, 500, 990}

ReceiptsFor(d) ==
    {500000 * k : k \in 0..MaxRecK}
    \cup {b + o : b \in {0, 49000, 2000000}, o \in CentOffsets}
    \cup {5200}
    \cup {t * d + o : t \in {120000, 150000, 180000, 200000, 300000,
                             900000, 1000000}, o \in {0, 1}}

ForestGaps == {0, 5, BLEND_GAP, BLEND_GAP + 1, BLEND_GAP + 5, 30000, MaxGap}

\* ------------------------------------------------------------------------
\* State
\* ------------------------------------------------------------------------
VARIABLES pc, d, m, r, bs, md, rc, eb, total, cents, h, f, result,
          bpc, data, i, out

callVars == <<pc, d, m, r, bs, md, rc, eb, total, cents, h, f, result>>
batchVars == <<bpc, data, i, out>>
vars == <<pc, d, m, r, bs, md, rc, eb, total, cents, h, f, result,
          bpc, data, i, out>>

Init ==
    /\ pc = "long_fac"
    /\ d \in Days
    /\ m \in Miles
    /\ r \in ReceiptsFor(d)
    /\ bs = 0 /\ md = 0 /\ rc = 0 /\ eb = 0 /\ total = 0
    /\ cents = 0 /\ h = 0 /\ f = 0 /\ result = 0
    /\ bpc = "idle" /\ data = <<>> /\ i = 0 /\ out = <<>>

CallLongFac ==
    /\ pc = "long_fac"
    /\ bs' = base_pay(d)
    /\ pc' = "mile_delta"
    /\ UNCHANGED <<d, m, r, md, rc, eb, total, cents, h, f, result>>
    /\ UNCHANGED batchVars

CallMileDelta ==
    /\ pc = "mile_delta"
    /\ md' = mile_delta(d, m)
    /\ pc' = "rec_comp"
    /\ UNCHANGED <<d, m, r, bs, rc, eb, total, cents, h, f, result>>
    /\ UNCHANGED batchVars

CallRecComp ==
    /\ pc = "rec_comp"
    /\ rc' = rec_comp(d, r)
    /\ pc' = "eff_bonus"
    /\ UNCHANGED <<d, m, r, bs, md, eb, total, cents, h, f, result>>
    /\ UNCHANGED batchVars

\* m/d raises ZeroDivisionError for d = 0
CallEffBonus ==
    /\ pc = "eff_bonus"
    /\ IF d = 0
       THEN /\ pc' = "raised"
            /\ UNCHANGED <<eb, total>>
       ELSE /\ eb' = eff_bonus(d, m)
            /\ total' = bs + md + rc + eb'
            /\ pc' = "five_day"
    /\ UNCHANGED <<d, m, r, bs, md, rc, cents, h, f, result>>
    /\ UNCHANGED batchVars

FiveDay ==
    /\ pc = "five_day"
    /\ total' = five_day(d, total)
    /\ pc' = "one_day"
    /\ UNCHANGED <<d, m, r, bs, md, rc, eb, cents, h, f, result>>
    /\ UNCHANGED batchVars

OneDay ==
    /\ pc = "one_day"
    /\ total' = one_day(d, m, total)
    /\ pc' = "low_mile"
    /\ UNCHANGED <<d, m, r, bs, md, rc, eb, cents, h, f, result>>
    /\ UNCHANGED batchVars

LowMile ==
    /\ pc = "low_mile"
    /\ total' = low_mile(d, m, r, total)
    /\ pc' = "fortnight"
    /\ UNCHANGED <<d, m, r, bs, md, rc, eb, cents, h, f, result>>
    /\ UNCHANGED batchVars

Fortnight ==
    /\ pc = "fortnight"
    /\ total' = fortnight(d, r, total)
    /\ pc' = "bug"
    /\ UNCHANGED <<d, m, r, bs, md, rc, eb, cents, h, f, result>>
    /\ UNCHANGED batchVars

Bug ==
    /\ pc = "bug"
    /\ \E c \in round_cents(r) :
          /\ cents' = c
          /\ total' = bug_mult(c, total)
    /\ pc' = "return"
    /\ UNCHANGED <<d, m, r, bs, md, rc, eb, h, f, result>>
    /\ UNCHANGED batchVars

Return ==
    /\ pc = "return"
    /\ h' \in round2(total)
    /\ pc' = "forest"
    /\ UNCHANGED <<d, m, r, bs, md, rc, eb, total, cents, f, result>>
    /\ UNCHANGED batchVars

\* rf.predict: any estimate; drawn at the gaps from h that matter
ForestPred ==
    /\ pc = "forest"
    /\ \E g \in ForestGaps, s \in {-1, 1} : f' = h + s * g
    /\ pc' = "blend"
    /\ UNCHANGED <<d, m, r, bs, md, rc, eb, total, cents, h, result>>
    /\ UNCHANGED batchVars

Blend ==
    /\ pc = "blend"
    /\ result' \in hybrid_round(blend(h, f))
    /\ pc' = "done"
    /\ UNCHANGED <<d, m, r, bs, md, rc, eb, total, cents, h, f>>
    /\ UNCHANGED batchVars

Next ==
    \/ CallLongFac
    \/ CallMileDelta
    \/ CallRecComp
    \/ CallEffBonus
    \/ FiveDay
    \/ OneDay
    \/ LowMile
    \/ Fortnight
    \/ Bug
    \/ Return
    \/ ForestPred
    \/ Blend

Spec == Init /\ [][Next]_vars

\* ------------------------------------------------------------------------
\* Batch run (generate_results.py)
\* ------------------------------------------------------------------------
Keys == {"trip_duration_days", "miles_traveled", "total_receipts_amount"}

\* hc.calculate_reimbursement(d, m, r) for d # 0: the amounts it can return
rule_total(d0, m0, r0, c) ==
    bug_mult(c, fortnight(d0, r0, low_mile(d0, m0, r0, one_day(d0, m0,
        five_day(d0, base_pay(d0) + mile_delta(d0, m0) + rec_comp(d0, r0)
                     + eff_bonus(d0, m0))))))

rule_results(d0, m0, r0) ==
    UNION {round2(rule_total(d0, m0, r0, c)) : c \in round_cents(r0)}

\* the hybrid calculate_reimbursement(days, miles, recs): what a call can do,
\* raise (ZeroDivisionError in eff_bonus) or return a value
calc(d0, m0, r0) ==
    IF d0 = 0 THEN {[raised |-> TRUE, val |-> 0]}
    ELSE {[raised |-> FALSE, val |-> v] :
             v \in UNION {hybrid_round(blend(h0, h0 + s * g)) :
                             h0 \in rule_results(d0, m0, r0),
                             g \in {0, MaxGap}, s \in {-1, 1}}}

\* f"{val}\n": the shortest decimal that reads back as the float val, which
\* for a value of c cents has one fractional digit when c is a multiple of
\* ten cents and two otherwise
format_val(c) ==
    LET a == Abs(c)
    IN [kind |-> "number", neg |-> c < 0, whole |-> a \div 100,
        frac |-> IF a % 10 = 0 THEN <<(a % 100) \div 10>>
                 ELSE <<(a % 100) \div 10, a % 10>>]

ERROR == [kind |-> "ERROR", neg |-> FALSE, whole |-> 0, frac |-> <<>>]

Case(days, miles, recs) ==
    [trip_duration_days |-> days, miles_traveled |-> miles,
     total_receipts_amount |-> recs]

\* the records of private_cases.json: trips, a trip of zero days, and an
\* object that lacks a field
Cases ==
    {Case(5, 0, 5200), Case(1, 600, 0), Case(3, 50, 5000000),
     Case(0, 50, 49490),
     [trip_duration_days |-> 2, total_receipts_amount |-> 49490]}

InitBatch ==
    /\ pc = "idle"
    /\ d = 0 /\ m = 0 /\ r = 0
    /\ bs = 0 /\ md = 0 /\ rc = 0 /\ eb = 0 /\ total = 0
    /\ cents = 0 /\ h = 0 /\ f = 0 /\ result = 0
    /\ bpc = "loop"
    /\ data \in UNION {[1..n -> Cases] : n \in 0..MaxCases}
    /\ i = 0
    /\ out = <<>>

\* one pass of the for loop, lines 30-43
ProcessCase ==
    /\ bpc = "loop"
    /\ i < Len(data)
    /\ LET case == data[i + 1]
       IN IF ~(Keys \subseteq DOMAIN case)
          THEN \* KeyError at lines 34-36, outside the try
               /\ bpc' = "aborted"
               /\ UNCHANGED <<i, out>>
          ELSE /\ \E c \in calc(case.trip_duration_days, case.miles_traveled,
                                case.total_receipts_amount) :
                      out' = Append(out, IF c.raised THEN ERROR
                                         ELSE format_val(c.val))
               /\ i' = i + 1
               /\ bpc' = bpc
    /\ UNCHANGED data
    /\ UNCHANGED callVars

\* the loop is exhausted: out.close()
Finish ==
    /\ bpc = "loop"
    /\ i = Len(data)
    /\ bpc' = "done"
    /\ UNCHANGED <<data, i, out>>
    /\ UNCHANGED callVars

NextBatch ==
    \/ ProcessCase
    \/ Finish

SpecBatch == InitBatch /\ [][NextBatch]_vars

\* ------------------------------------------------------------------------
\* Properties of the rule engine and the hybrid
\* ------------------------------------------------------------------------
Returned == pc \in {"forest", "blend", "done"}

\* the cents nearest to r mills (both neighbours at a half cent)
NearestCents(r0) ==
    {c \in {r0 \div 10, r0 \div 10 + 1} : Abs(10 * c - r0) <= 5}

\* the cents nearest to x units, x known to within Slack
NearestCentsOf(x) ==
    {c \in {x \div 1000, x \div 1000 + 1} : Abs(1000 * c - x) <= 500 + Slack}

\* C1: for days == 5 the returned amount is at most the five-day cap 1720,
\* whatever miles and receipts are and whether or not the bug multiplier fires.
C1_FiveDayCap == (Returned /\ d = 5) => h <= 172000

C1_Witness == Returned /\ d = 5 /\ h = 172000 /\ ~hits_bug(cents)

\* C2: the running total is multiplied by 0.60 exactly when the receipts
\* rounded to integer cents, mod 100, are 49 or 99 (49.49 does, 49.50 does
\* not); otherwise the pre-bug total is returned unscaled, only rounded to
\* two decimals.
C2_BugIff ==
    [][/\ pc = "bug" =>
            /\ cents' \in NearestCents(r)
            /\ (cents' % 100 = 49 \/ cents' % 100 = 99)
                   => total' = MulDiv(total, 60, 100)
            /\ ~(cents' % 100 = 49 \/ cents' % 100 = 99) => total' = total
            /\ r = 49490 => total' = MulDiv(total, 60, 100)
            /\ r = 49500 => total' = total
       /\ pc = "return" => h' \in NearestCentsOf(total)]_vars

C2_Witness ==
    /\ pc = "forest" /\ r = 49490 /\ cents = 4949
    /\ total # 0 /\ h \in NearestCentsOf(total)

\* C3 as stated: days=2, miles=50, receipts=49.49 returns 70.69.
C3_Original == (Returned /\ d = 2 /\ m = 50 /\ r = 49490) => h = 7069

\* C3 as amended: days=2, miles=50, receipts=49.49 returns 70.71: base 97.2*2,
\* the low-mileage delta -150 for 2 days, receipts at rate 0.60, the
\* efficiency parabola bonus 43.757..., then the 0.60 bug multiplier, rounded
\* to cents.
C3_Amended ==
    (Returned /\ d = 2 /\ m = 50 /\ r = 49490) =>
        /\ bs = 19440000 /\ md = -15000000 /\ rc = 2969400
        /\ eb \in 4375739..4375740
        /\ cents = 4949
        /\ h = 7071

C3_Witness == Returned /\ d = 2 /\ m = 50 /\ r = 49490 /\ h = 7071

\* C4: the one-day road-warrior bonus 235 is added to the running total once
\* for days == 1 and miles > 500, and is not added for days == 1 with
\* miles <= 500 or for days # 1; compute(1, 600, 0) = 353.20.
C4_OneDayBonus ==
    [][/\ pc = "one_day" =>
            total' = total + (IF d = 1 /\ m > 500 THEN 23500000 ELSE 0)
       /\ (pc \in {"five_day", "low_mile", "fortnight"} /\ d = 1) =>
            total' = total
       /\ (pc = "return" /\ d = 1 /\ m = 600 /\ r = 0) => h' = 35320]_vars

C4_Witness == Returned /\ d = 1 /\ m = 600 /\ r = 0 /\ h = 35320

\* C5: when |h - f| <= threshold (100) the hybrid returns h exactly; the
\* model estimate has no influence.
C5_BlendAgreement == (pc = "done" /\ Abs(h - f) <= 10000) => result = h

C5_Witness == pc = "done" /\ Abs(h - f) = 10000 /\ result = h

\* C6: when |h - f| > threshold (100) the result is h + 0.9*(f - h) rounded
\* to two decimals, strictly between h and f and closer to f than to h;
\* h = 500.00 and f = 200.00 give 230.00.
C6_BlendShift ==
    (pc = "done" /\ Abs(h - f) > 10000) =>
        /\ Abs(10 * result - (10 * h + 9 * (f - h))) <= 5
        /\ Min(h, f) < result /\ result < Max(h, f)
        /\ Abs(result - f) < Abs(result - h)
        /\ (h = 50000 /\ f = 20000) => result = 23000

C6_Witness == pc = "done" /\ h = 50000 /\ f = 20000 /\ result = 23000

\* C7: as the module docstring states, the hybrid returns h + 0.8*(f - h)
\* when |h - f| > 350 and h otherwise.
C7_Documented ==
    pc = "done" =>
        IF Abs(h - f) > DOC_GAP
        THEN Abs(1000 * result - (1000 * h + DOC_WEIGHT * (f - h))) <= 500
        ELSE result = h

\* C9: mile_delta is the days-dependent flat delta for miles <= 100 and the
\* delta of the first breakpoint not exceeded above: -25 on (100,300], 21 on
\* (300,600], 254 on (600,1000], 314 above; -261 is never returned.
C9_MileDelta ==
    (pc \notin {"long_fac", "mile_delta"} /\ d >= 1) =>
        /\ md = IF m <= 100
                THEN IF d = 1 THEN 0
                     ELSE IF d \in 2..3 THEN -15000000
                     ELSE IF d \in 4..6 THEN -10000000
                     ELSE -5000000
                ELSE IF m <= 300 THEN -2500000
                ELSE IF m <= 600 THEN 2100000
                ELSE IF m <= 1000 THEN 25400000
                ELSE 31400000
        /\ md # -26100000

C9_Witness == pc = "rec_comp" /\ d >= 1 /\ m = 101 /\ md = -2500000

\* C10: for days >= 7, rec_comp = 0.45*min(receipts, K)
\* + 0.15*max(0, min(receipts - K, K)) - (0.25 + 0.02*days)*max(0, receipts - 2K)
\* with K = 150*days and no floor, so it can be negative; for days <= 6 it is
\* never negative and non-decreasing in receipts (0.60 for days <= 2 or 0.45
\* for days 3-6 up to the knee 1000*days, 0.15 above it).
C10_ReceiptCurve ==
    (pc \notin {"long_fac", "mile_delta", "rec_comp"} /\ d >= 1) =>
        IF d >= 7
        THEN LET K == 150000 * d
             IN rc = 45 * Min(r, K) + 15 * Max(0, Min(r - K, K))
                     - (25 + 2 * d) * Max(0, r - 2 * K)
        ELSE /\ rc >= 0
             /\ rc = (IF d <= 2 THEN 60 ELSE 45) * Min(r, 1000000 * d)
                     + 15 * Max(0, r - 1000000 * d)
             /\ \A r2 \in ReceiptsFor(d) : r2 >= r => rec_comp(d, r2) >= rc

C10_Witness == pc = "eff_bonus" /\ d >= 7 /\ rc < 0

\* the line the batch writes for a well-formed record
LineFor(case, line) ==
    IF case.trip_duration_days = 0 THEN line = ERROR
    ELSE /\ line.kind = "number"
         /\ Len(line.frac) <= 2

\* C8: the batch run processes the records in input order and writes one line
\* per record, a two-decimal number when the computation succeeds or ERROR
\* when it raises; a failure on one record never aborts or skips the
\* remaining records, and after the run there are as many lines as records.
C8_OneLinePerRecord ==
    /\ bpc \in {"loop", "done"}
    /\ Len(out) = i
    /\ \A k \in 1..Len(out) : LineFor(data[k], out[k])
    /\ bpc = "done" => Len(out) = Len(data)

\* C11: the low-mileage clawback subtracts 0.90*max(0, receipts - 900*days)
\* from the running total exactly when days is 3 or 4 and miles <= 100, and
\* changes nothing otherwise; for days=3, miles=50, receipts=5000 the result
\* is the pre-clawback subtotal minus 0.90*(5000 - 2700), rounded to cents,
\* and is strictly lower than that subtotal.
C11_Clawback ==
    [][/\ pc = "low_mile" =>
            total' = total - (IF d \in {3, 4} /\ m <= 100
                              THEN 90 * Max(0, r - 900000 * d)
                              ELSE 0)
       /\ (pc = "return" /\ d = 3 /\ m = 50 /\ r = 5000000) =>
            LET sub == bs + md + rc + eb
            IN /\ h' \in NearestCentsOf(sub - 207000000)
               /\ 1000 * h' < sub
               /\ h' = -23818]_vars

C11_Witness ==
    /\ Returned /\ d = 3 /\ m = 50 /\ r = 5000000
    /\ bs + md + rc + eb > 0 /\ h = -23818

\* C12: the special-case adjustments are applied to the running total in the
\* order five-day bonus+cap, one-day bonus, low-mileage clawback, fortnight
\* parity, bug multiplier, and the order matters: for days == 5 with
\* bug-triggering receipts the result is round2(0.60 * min(subtotal + 79, 1720)),
\* not min(0.60*(subtotal + 79), 1720), and the two differ whenever
\* subtotal + 79 > 1720.
C12_Order ==
    [][/\ pc = "five_day" => pc' = "one_day"
       /\ pc = "one_day" => pc' = "low_mile"
       /\ pc = "low_mile" => pc' = "fortnight"
       /\ pc = "fortnight" => pc' = "bug"
       /\ pc = "bug" => pc' = "return"
       /\ (pc = "return" /\ d = 5 /\ (cents % 100 = 49 \/ cents % 100 = 99)) =>
            LET sub == bs + md + rc + eb
                capped_then_scaled == MulDiv(Min(sub + 7900000, 172000000), 60, 100)
                scaled_then_capped == Min(MulDiv(sub + 7900000, 60, 100), 172000000)
            IN /\ total = capped_then_scaled
               /\ h' \in NearestCentsOf(capped_then_scaled)
               /\ sub + 7900000 > 172000000 =>
                     /\ capped_then_scaled # scaled_then_capped
                     /\ h' = 103200]_vars

C12_Witness ==
    /\ Returned /\ d = 5 /\ hits_bug(cents)
    /\ bs + md + rc + eb + 7900000 > 172000000
    /\ h = 103200

====
